---- MODULE Spec2Model ----
(***************************************************************************)
(* Model of the authenticated request lifecycle of the leetspace frontend  *)
(* (class ApiService, second definition in src/unnamed/part_000): the      *)
(* token store (memory + localStorage), the single-flight refresh promise, *)
(* and request()/makeRequest with its one retry.                           *)
(*                                                                         *)
(* JavaScript scheduling is modelled as an event loop: a macrotask (a      *)
(* caller invoking a method, a network response, a body read finishing)    *)
(* runs only when the microtask queue mq is empty; promise reactions       *)
(* (.finally, the continuations of awaiting requests) are microtasks that  *)
(* run in FIFO order before the next macrotask.                            *)
(***************************************************************************)
EXTENDS Integers, Sequences, FiniteSets, TLC

\* ---- bounds of the model ----
MaxReq == 2        \* request() calls the page makes
MaxStoreOps == 1   \* setToken/clearTokens calls made from outside request()

\* JavaScript null / absent localStorage entry; the access tokens the
\* backend issues are 1, 2, ...
NULL == 0

\* the refresh token the backend issues together with access token k: a
\* different string
RefreshOf(k) == 0 - k

IsRefreshToken(x) == x < 0

Reqs == 1..MaxReq
Exchs == 1..MaxReq

\* HTTP statuses a dispatch can be answered with
Statuses == {200, 401, 409}

\* ---- JavaScript values ------------------------------------------------

\* the values a key of a parsed JSON body can hold, as far as the class
\* tells them apart: undefined (the key is missing), a string, an array
Undefined == [type |-> "undefined", v |-> ""]
Str(s) == [type |-> "string", v |-> s]
Arr(s) == [type |-> "array", v |-> s]

\* ToBoolean, as applied by || on line 295
Truthy(x) == x.type = "array" \/ (x.type = "string" /\ x.v # "")

\* ToString, as applied by new Error(message) on line 295
ToStr(x) ==
    CASE x.type = "string" -> x
      [] x.type = "array" -> Str("[object Object]")
      [] OTHER -> Str("undefined")

\* {} and the bodies of error responses: FastAPI answers with a detail
\* string (HTTPException) or a detail list of objects (422 validation
\* errors); a conflict answer also carries the list of conflicting ids
EmptyObject == [detail |-> Undefined, conflicts |-> Undefined]

JsonObjects ==
    {[detail |-> d, conflicts |-> c] :
        d \in {Undefined, Str(""), Str("conflict"), Arr("[{loc, msg, type}]")},
        c \in {Undefined, Arr("[id1, id2]")}}

\* a response body: whether response.json() can parse it, and the object
\* it parses to
Unparseable == [parses |-> FALSE, json |-> EmptyObject]

Bodies == {Unparseable} \cup {[parses |-> TRUE, json |-> j] : j \in JsonObjects}

\* the body every response carries where the calls of a whole page are
\* followed: what a body holds decides nothing but the error of the call
\* that reads it
PlainBody == [parses |-> TRUE, json |-> EmptyObject]

\* a body that parses and one that does not
TwoBodies == {PlainBody, Unparseable}

\* ---- endpoint and options of a request() call --------------------------

\* a key the options object does not have
Absent == "<absent>"

\* null and undefined as values of a query parameter
Nullish == {"<null>", "<undefined>"}

Endpoints == {"/problems", "/auth/login/json"}

\* options.params, as the list of its entries
ParamMaps ==
    {<<>>,
     <<<<"difficulty", "easy">>>>,
     <<<<"difficulty", "<null>">>>>,
     <<<<"difficulty", "easy">>, <<"tag", "<undefined>">>>>,
     <<<<"difficulty", "<null>">>, <<"tag", "dp">>>>}

\* the options objects: method, body and params, each present or not
Options ==
    {[method |-> m, body |-> b, hasParams |-> FALSE, params |-> <<>>] :
        m \in {Absent, "GET", "POST"}, b \in {Absent, "{json}"}}
    \cup
    {[method |-> m, body |-> b, hasParams |-> TRUE, params |-> p] :
        m \in {Absent, "GET", "POST"}, b \in {Absent, "{json}"}, p \in ParamMaps}

\* request(endpoint) with options defaulted to {}
NoOptions == [method |-> Absent, body |-> Absent, hasParams |-> FALSE, params |-> <<>>]

IsSet(kv) == kv[2] \notin Nullish

\* lines 249-263: the URL, as endpoint and query string; null and
\* undefined parameters are skipped and an empty query string adds nothing
Url(endpoint, options) ==
    [endpoint |-> endpoint,
     query |-> IF options.hasParams THEN SelectSeq(options.params, IsSet) ELSE <<>>]

Config_bodyDroppedOnRetry(options, retryCount) ==
    [method |-> options.method,
     body |-> IF retryCount = 0 THEN options.body ELSE Absent]

\* lines 266-272: the config of a dispatch, headers aside: a copy of the
\* options without params
Config(options, retryCount) ==
    [method |-> options.method, body |-> options.body]

OptionsAfterConfig_aliased(options) ==
    [options EXCEPT !.hasParams = FALSE, !.params = <<>>]

\* lines 266-272: the caller's options object once a config has been built
\* from it: the spread copies its entries, and delete config.params removes
\* the entry from the copy
OptionsAfterConfig(options) == options

\* what goes on the wire besides the headers
Wire(url, config) == [url |-> url, method |-> config.method, body |-> config.body]

GenericMessage(status) ==
    CASE status = 401 -> Str("HTTP error! status: 401")
      [] status = 409 -> Str("HTTP error! status: 409")
      [] OTHER -> Str("HTTP error! status: ?")

\* lines 292-297: the error thrown for a response that is not ok
makeError(status, body) ==
    LET errorData == IF body.parses THEN body.json ELSE EmptyObject IN
    [status  |-> status,
     message |-> IF Truthy(errorData.detail) THEN ToStr(errorData.detail)
                 ELSE GenericMessage(status),
     data    |-> errorData]

VARIABLES
    token,              \* this.token
    refreshToken,       \* this.refreshToken
    lsAccess,           \* localStorage 'access_token'
    lsRefresh,          \* localStorage 'refresh_token'
    refreshPromise,     \* this.refreshPromise: NULL or the exchange it stands for
    exch,               \* the refresh exchanges issued so far
    refreshCalls,       \* number of fetch(/auth/refresh) calls issued
    req,                \* the request() calls
    mq,                 \* microtask queue
    nextTok,            \* next token pair the backend hands out
    sessionTerminated,  \* window.location.href = '/auth' was assigned
    storeOps,           \* setToken/clearTokens calls made from outside request() so far
    user,               \* AuthProvider's user state: NULL or the user object
    last                \* what the step taken last did: a call on the token
                        \* store from outside, or a request() call returning;
                        \* a rejected refresh fetch stays on record until a
                        \* request that awaited it has continued

vars == <<token, refreshToken, lsAccess, lsRefresh, refreshPromise, exch,
          refreshCalls, req, mq, nextTok, sessionTerminated, storeOps, user, last>>

store == <<token, refreshToken, lsAccess, lsRefresh>>

\* ---- Token Store -------------------------------------------------------

setToken_accessOnly(accessToken, refreshTokenArg) ==
    [token |-> accessToken, refreshToken |-> refreshToken,
     lsAccess |-> accessToken, lsRefresh |-> lsRefresh]

\* setToken(accessToken, refreshToken = null): the four values afterwards.
\* An omitted refresh argument is the default null.
setToken(accessToken, refreshTokenArg) ==
    [token        |-> accessToken,
     refreshToken |-> IF refreshTokenArg # NULL THEN refreshTokenArg ELSE refreshToken,
     lsAccess     |-> IF accessToken # NULL THEN accessToken ELSE NULL,
     lsRefresh    |-> IF refreshTokenArg # NULL THEN refreshTokenArg ELSE NULL]

clearTokens_keepsStoredRefresh ==
    [token |-> NULL, refreshToken |-> NULL, lsAccess |-> NULL, lsRefresh |-> lsRefresh]

\* clearTokens(): the four values afterwards
clearTokens ==
    [token |-> NULL, refreshToken |-> NULL, lsAccess |-> NULL, lsRefresh |-> NULL]

\* the constructor's reads of localStorage
constructor ==
    [token |-> lsAccess, refreshToken |-> lsRefresh,
     lsAccess |-> lsAccess, lsRefresh |-> lsRefresh]

getToken == token
getRefreshToken == refreshToken

getAuthHeaders_noAuthorization == NULL

getAuthHeaders_refreshToken == refreshToken

\* getAuthHeaders(): the Authorization header's token, NULL when no header
getAuthHeaders == IF token # NULL THEN token ELSE NULL

Write(s) ==
    /\ token' = s.token
    /\ refreshToken' = s.refreshToken
    /\ lsAccess' = s.lsAccess
    /\ lsRefresh' = s.lsRefresh

\* ---- initial state ----------------------------------------------------

\* a request() call: where it is suspended, makeRequest's retryCount, and a
\* record of what it did (status/hadRT: the last response and whether a
\* refresh token was stored when it came; auth0/auth1: the Authorization
\* header of the dispatch and of the resubmission; awaited: the refresh
\* awaited; pendingAt401: this.refreshPromise when the 401 was seen; issued:
\* its refreshAccessToken() call issued the fetch; closure: the url and the
\* caller's options object makeRequest closes over, while the call runs,
\* with the value the object was given to request() with; wires: what the
\* dispatch and the resubmission sent besides the headers; via: the method
\* that made the call; minted: the access token the login that led to the
\* call has stored)
NoReq == [pc |-> "idle", retryCount |-> 0, status |-> 0, hadRT |-> FALSE,
          auth0 |-> NULL, auth1 |-> NULL, awaited |-> NULL, pendingAt401 |-> NULL,
          issued |-> FALSE, dispatches |-> 0, refreshes |-> 0,
          closure |-> <<>>, wires |-> <<>>, via |-> "request", minted |-> NULL]

NoExch == [st |-> "none", outcome |-> "none", auth |-> NULL, sentRefresh |-> NULL,
           newAccess |-> NULL, newRefresh |-> NULL, waiters |-> <<>>]

\* a call that has returned or thrown, and a call the page no longer runs
Done == [NoReq EXCEPT !.pc = "done"]
Gone == [NoReq EXCEPT !.pc = "gone"]

NoLast == [op |-> "none", r |-> 0, result |-> "none", status |-> 0,
           retryCount |-> 0, hadRT |-> FALSE, dispatches |-> 0, refreshes |-> 0,
           signalled |-> FALSE, body |-> <<>>, error |-> <<>>, via |-> "none"]

Call(op) == [NoLast EXCEPT !.op = op]

\* request r returns or throws `result`; status is the status of the
\* response it ends on (0: the fetch rejected); signalled: the page had
\* already been sent to /auth when the call came to its end; body, error:
\* the body that was read and the error built from it, if any
Return(r, result) ==
    [op |-> "return", r |-> r, result |-> result, status |-> req[r].status,
     retryCount |-> req[r].retryCount, hadRT |-> req[r].hadRT,
     dispatches |-> req[r].dispatches, refreshes |-> req[r].refreshes,
     signalled |-> sessionTerminated, body |-> <<>>, error |-> <<>>,
     via |-> req[r].via]

\* localStorage either empty or holding the pair of an earlier login
Init ==
    /\ \E k \in {NULL, 1} :
         /\ lsAccess = k /\ lsRefresh = RefreshOf(k)
         /\ token = k /\ refreshToken = RefreshOf(k)
         /\ nextTok = k + 1
    /\ refreshPromise = NULL
    /\ exch = [e \in Exchs |-> NoExch]
    /\ refreshCalls = 0
    /\ req = [r \in Reqs |-> NoReq]
    /\ mq = <<>>
    /\ sessionTerminated = FALSE
    /\ storeOps = 0
    /\ user = NULL
    /\ last = NoLast

\* ---- Refresh Coordinator -----------------------------------------------

HasPendingRefresh_never == FALSE

\* line 220: a refresh is already pending
HasPendingRefresh == refreshPromise # NULL

\* lines 226-228: the headers of the refresh call are Content-Type alone;
\* the Authorization header's token, NULL when no header
RefreshHeaders == NULL

\* lines 224-231: fetch(/auth/refresh) is issued by request r and its promise
\* chain stored in this.refreshPromise; the body carries the refresh token
StartRefresh(r) ==
    LET e == refreshCalls + 1 IN
    /\ refreshCalls < MaxReq
    /\ exch' = [exch EXCEPT ![e] = [st |-> "sent", outcome |-> "none",
                                    auth |-> RefreshHeaders,
                                    sentRefresh |-> refreshToken,
                                    newAccess |-> NULL, newRefresh |-> NULL,
                                    waiters |-> <<r>>]]
    /\ refreshPromise' = e
    /\ refreshCalls' = e
    /\ req' = [req EXCEPT ![r] = [@ EXCEPT !.pc = "refreshing", !.status = 401,
                                           !.hadRT = TRUE, !.awaited = e,
                                           !.pendingAt401 = refreshPromise,
                                           !.issued = TRUE,
                                           !.refreshes = @ + 1]]

\* line 221: the pending promise is returned and awaited
JoinRefresh(r) ==
    /\ exch' = [exch EXCEPT ![refreshPromise].waiters = Append(@, r)]
    /\ req' = [req EXCEPT ![r] = [@ EXCEPT !.pc = "refreshing", !.status = 401,
                                           !.hadRT = TRUE, !.awaited = refreshPromise,
                                           !.pendingAt401 = refreshPromise,
                                           !.refreshes = @ + 1]]
    /\ UNCHANGED <<refreshPromise, refreshCalls>>

\* refreshAccessToken() as called from makeRequest (the refresh token is
\* present there, line 278). A request() call refreshes at most once, so the
\* page issues at most MaxReq exchanges.
refreshAccessToken(r) ==
    IF HasPendingRefresh THEN JoinRefresh(r) ELSE StartRefresh(r)

\* the .then callback of exchange e has finished: .finally is queued
Settle(e, how) ==
    /\ exch' = [exch EXCEPT ![e].st = "settling", ![e].outcome = how,
                            ![e].newAccess = IF how = "fulfilled" THEN nextTok ELSE NULL,
                            ![e].newRefresh = IF how = "fulfilled" THEN RefreshOf(nextTok)
                                              ELSE NULL]
    /\ mq' = <<[kind |-> "finally", id |-> e]>>

\* the refresh fetch is answered: line 233
RefreshResponse(e, ok) ==
    /\ mq = <<>>
    /\ exch[e].st = "sent"
    /\ IF ok
         THEN /\ exch' = [exch EXCEPT ![e].st = "reading"]
              /\ UNCHANGED mq
         ELSE Settle(e, "rejected")
    /\ last' = NoLast
    /\ UNCHANGED <<store, refreshPromise, refreshCalls, req, nextTok,
                   sessionTerminated, storeOps, user>>

\* the refresh fetch itself rejects (network failure)
RefreshFetchReject(e) ==
    /\ mq = <<>>
    /\ exch[e].st = "sent"
    /\ Settle(e, "rejected")
    /\ last' = Call("refreshFetchReject")
    /\ UNCHANGED <<store, refreshPromise, refreshCalls, req, nextTok,
                   sessionTerminated, storeOps, user>>

\* lines 237-239: the body of a 2xx refresh response has been read; the
\* backend hands out the next token pair
RefreshBody(e, parsed) ==
    /\ mq = <<>>
    /\ exch[e].st = "reading"
    /\ IF parsed
         THEN /\ Write(setToken(nextTok, RefreshOf(nextTok)))
              /\ nextTok' = nextTok + 1
              /\ Settle(e, "fulfilled")
         ELSE /\ Settle(e, "rejected")
              /\ UNCHANGED <<store, nextTok>>
    /\ last' = NoLast
    /\ UNCHANGED <<refreshPromise, refreshCalls, req, sessionTerminated, storeOps, user>>

HandleAfterSettle_keptOnFailure(e) ==
    IF exch[e].outcome = "fulfilled" THEN NULL ELSE refreshPromise

\* line 241: this.refreshPromise once the .finally callback of exchange e
\* has run, whichever way the .then callback ended
HandleAfterSettle(e) == NULL

Waiters_issuerOnly(e) == SubSeq(exch[e].waiters, 1, 1)

\* lines 244, 221 and 280: the requests awaiting the promise of exchange e,
\* in the order their awaits began
Waiters(e) == exch[e].waiters

\* lines 240-242: .finally clears the handle; then the promise settles and
\* the requests awaiting it are resumed in the order they began to wait
Finally(e) ==
    /\ mq # <<>>
    /\ Head(mq) = [kind |-> "finally", id |-> e]
    /\ refreshPromise' = HandleAfterSettle(e)
    /\ exch' = [exch EXCEPT ![e].st = "settled", ![e].waiters = <<>>,
                            ![e].sentRefresh = NULL]
    /\ mq' = Tail(mq) \o [i \in 1..Len(Waiters(e)) |->
                             [kind |-> "resume", id |-> Waiters(e)[i]]]
    /\ last' = IF last.op = "refreshFetchReject" THEN last ELSE NoLast
    /\ UNCHANGED <<store, refreshCalls, req, nextTok, sessionTerminated, storeOps,
                   user>>

\* ---- Request Executor --------------------------------------------------

\* lines 248-275: a request() call made by method `via` once it has built
\* the url and makeRequest(0) has built the config, with `headers` as the
\* Authorization header, and dispatched
Started(via, endpoint, options, headers) ==
    [NoReq EXCEPT !.pc = "sent", !.auth0 = headers,
                  !.dispatches = 1,
                  !.closure = <<[url |-> Url(endpoint, options),
                                 given |-> options,
                                 options |-> OptionsAfterConfig(options)]>>,
                  !.wires = <<Wire(Url(endpoint, options), Config(options, 0))>>,
                  !.via = via]

\* method `via` calls request(endpoint, options); the methods of
\* AuthProvider are called one at a time, each awaited by the form that
\* calls it
CallStart(r, via, endpoint, options) ==
    /\ mq = <<>>
    /\ req[r].pc = "idle"
    /\ via # "request" =>
          \A q \in Reqs : req[q].pc \in {"idle", "done", "gone"} \/ req[q].via = "request"
    /\ \A q \in Reqs : q < r => req[q].pc # "idle"
    /\ req' = [req EXCEPT ![r] = Started(via, endpoint, options, getAuthHeaders)]
    /\ last' = NoLast
    /\ UNCHANGED <<store, refreshPromise, exch, refreshCalls, mq, nextTok,
                   sessionTerminated, storeOps, user>>

\* request(endpoint, options) called by a component of the page
Request(r, endpoint, options) == CallStart(r, "request", endpoint, options)

\* ---- the methods around request(), with their callers in AuthProvider --

\* the user object /auth/me answers with
UserData == 1

PostJson == [method |-> "POST", body |-> "{json}", hasParams |-> FALSE, params |-> <<>>]
Post == [method |-> "POST", body |-> Absent, hasParams |-> FALSE, params |-> <<>>]
Delete == [method |-> "DELETE", body |-> Absent, hasParams |-> FALSE, params |-> <<>>]

\* part_002 lines 19-25: checkAuth, run as the page mounts, calls
\* getCurrentUser() when a token is stored
CheckAuth(r) ==
    /\ token # NULL
    /\ \A q \in Reqs : req[q].pc = "idle"
    /\ CallStart(r, "checkAuth", "/auth/me", NoOptions)

\* part_002 line 43 and lines 323-327: AuthProvider.login calls login()
Login(r) == CallStart(r, "login", "/auth/login/json", PostJson)

\* part_002 line 83 and lines 344-349: AuthProvider.logout calls logout()
Logout(r) == CallStart(r, "logout", "/auth/logout", Post)

\* part_002 line 97 and lines 359-363
LogoutAllDevices(r) == CallStart(r, "logoutAll", "/auth/logout-all", Post)

\* part_002 line 135 and lines 388-391
DeleteAccount(r) == CallStart(r, "deleteAccount", "/auth/account", Delete)

StoreNow ==
    [token |-> token, refreshToken |-> refreshToken,
     lsAccess |-> lsAccess, lsRefresh |-> lsRefresh]

AfterCall_logoutClearsOnSuccess(via, result, s) ==
    IF (via \in {"logout", "logoutAll", "deleteAccount"} /\ result = "ok")
       \/ via = "logoutAll"
    THEN clearTokens ELSE s

AfterCall_deleteAccountClearsAlways(via, result, s) ==
    IF via \in {"logout", "logoutAll", "deleteAccount"} THEN clearTokens ELSE s

\* what the method that called request() does to the token store once
\* request() has returned ("ok") or thrown, s being the store request()
\* left: logout (lines 350-356) and logoutAllDevices (363, 367) clear it
\* either way, deleteAccount (392) when request() returned, checkAuth
\* (part_002 line 29) calls setToken(null) when getCurrentUser() threw
AfterCall(via, result, s) ==
    CASE via \in {"logout", "logoutAll"} -> clearTokens
      [] via = "deleteAccount" /\ result = "ok" -> clearTokens
      [] via = "checkAuth" /\ result # "ok" ->
            [s EXCEPT !.token = NULL, !.lsAccess = NULL, !.lsRefresh = NULL]
      [] OTHER -> s

\* what the caller of the method gets: logout returns {success: true}
\* whatever request() did, AuthProvider.login and logoutAllDevices return
\* it when nothing threw, checkAuth catches everything; the others return
\* what request() returned or throw what it threw
CallResult(via, result) ==
    CASE via = "logout" -> "success"
      [] via \in {"logoutAll", "getCurrentUser"} /\ result = "ok" -> "success"
      [] via = "checkAuth" -> "checked"
      [] OTHER -> result

\* AuthProvider's user state once the method has returned or thrown
UserAfter(via, result) ==
    CASE via \in {"logout", "logoutAll"} -> NULL
      [] via = "deleteAccount" /\ result = "ok" -> NULL
      [] via = "checkAuth" -> IF result = "ok" THEN UserData ELSE NULL
      [] via = "getCurrentUser" /\ result = "ok" -> UserData
      [] OTHER -> user

\* request() call r returns or throws `result`, leaving the token store s,
\* and the method that made the call continues: login stores the pair the
\* backend issued (lines 329-331) and AuthProvider.login goes on to call
\* getCurrentUser() (part_002 line 46); every other method comes to its end,
\* ret being the record of the call
Ended(r, result, s, ret) ==
    IF req[r].via = "login" /\ result = "ok"
      THEN /\ Write(setToken(nextTok, RefreshOf(nextTok)))
           /\ nextTok' = nextTok + 1
           /\ req' = [req EXCEPT ![r] =
                         [Started("getCurrentUser", "/auth/me", NoOptions,
                                  getAuthHeaders') EXCEPT !.minted = nextTok]]
           /\ last' = NoLast
           /\ UNCHANGED user
      ELSE /\ Write(AfterCall(req[r].via, result, s))
           /\ user' = UserAfter(req[r].via, result)
           /\ req' = [req EXCEPT ![r] = Done]
           /\ last' = [ret EXCEPT !.result = CallResult(req[r].via, result)]
           /\ UNCHANGED nextTok

\* ---- Request Executor, continued --------------------------------------

ShouldRefresh_onEvery401(r, status) ==
    status = 401 /\ refreshToken # NULL

\* line 278
ShouldRefresh(r, status) ==
    status = 401 /\ req[r].retryCount = 0 /\ refreshToken # NULL

\* lines 275-302: the dispatch is answered with a status
FetchResponse(r, status) ==
    /\ mq = <<>>
    /\ req[r].pc = "sent"
    /\ IF ShouldRefresh(r, status)
         THEN refreshAccessToken(r)
         ELSE /\ req' = [req EXCEPT ![r] = [@ EXCEPT
                        !.pc = IF status = 200 THEN "okbody" ELSE "errbody",
                        !.status = status,
                        !.hadRT = (status = 401 /\ refreshToken # NULL),
                        !.auth0 = NULL, !.auth1 = NULL,
                        !.awaited = NULL, !.pendingAt401 = NULL,
                        !.issued = FALSE,
                        !.closure = <<>>, !.wires = <<>>]]
              /\ UNCHANGED <<exch, refreshPromise, refreshCalls>>
    /\ last' = NoLast
    /\ UNCHANGED <<store, mq, nextTok, sessionTerminated, storeOps, user>>

\* line 275 rejects: caught at 303, logged and rethrown
FetchReject(r) ==
    /\ mq = <<>>
    /\ req[r].pc = "sent"
    /\ Ended(r, "NetworkError", StoreNow,
             [Return(r, "NetworkError") EXCEPT !.status = 0, !.hadRT = FALSE])
    /\ UNCHANGED <<refreshPromise, exch, refreshCalls, mq, sessionTerminated,
                   storeOps>>

\* lines 291-302: response.json() finished on the body the response
\* carries; the call returns the parsed body or throws
BodyRead(r, body) ==
    /\ mq = <<>>
    /\ req[r].pc \in {"okbody", "errbody"}
    /\ IF req[r].pc = "errbody"
         THEN Ended(r, "ApiError", StoreNow,
                    [Return(r, "ApiError") EXCEPT
                        !.body = <<body>>,
                        !.error = <<makeError(req[r].status, body)>>])
         ELSE Ended(r, IF body.parses THEN "ok" ELSE "ParseError", StoreNow,
                    [Return(r, IF body.parses THEN "ok" ELSE "ParseError") EXCEPT
                        !.body = <<body>>])
    /\ UNCHANGED <<refreshPromise, exch, refreshCalls, mq, sessionTerminated,
                   storeOps>>

RetryHeaders_fromFirstDispatch(r) == req[r].auth0

\* line 267 on the retry: the headers are built anew
RetryHeaders(r) == getAuthHeaders

RefreshSucceeded_always(r) == TRUE

\* lines 279-283: the awaited promise was fulfilled, not rejected
RefreshSucceeded(r) == exch[req[r].awaited].outcome = "fulfilled"

SessionTerminator_signalToggles ==
    [store |-> clearTokens, signal |-> ~sessionTerminated]

SessionTerminator_noSignal ==
    [store |-> clearTokens, signal |-> sessionTerminated]

\* lines 285-286: clearTokens() and window.location.href = '/auth'; the
\* token store and the signal afterwards
SessionTerminator ==
    [store |-> clearTokens, signal |-> TRUE]

\* lines 280-288: the request awaiting the refresh continues
Resume(r) ==
    /\ mq # <<>>
    /\ Head(mq) = [kind |-> "resume", id |-> r]
    /\ mq' = Tail(mq)
    /\ IF RefreshSucceeded(r)
         THEN /\ req' = [req EXCEPT ![r] = [@ EXCEPT !.pc = "sent", !.retryCount = 1,
                                                !.auth1 = RetryHeaders(r),
                                                !.dispatches = @ + 1,
                                                !.closure = <<[req[r].closure[1] EXCEPT
                                                    !.options = OptionsAfterConfig(@)]>>,
                                                !.wires = Append(@,
                                                     Wire(req[r].closure[1].url,
                                                          Config(req[r].closure[1].options, 1)))]]
              /\ last' = NoLast
              /\ UNCHANGED <<store, sessionTerminated, nextTok, user>>
         ELSE /\ sessionTerminated' = SessionTerminator.signal
              /\ Ended(r, "SessionExpired", SessionTerminator.store,
                       Return(r, "SessionExpired"))
    /\ UNCHANGED <<refreshPromise, exch, refreshCalls, storeOps>>

\* ---- callers of the Token Store ---------------------------------------

\* setToken called from outside request(): by login with the pair the
\* backend issued (a, r), with an access token alone (a), by checkAuth with
\* null
SetToken(a, r) ==
    /\ a = NULL => r = NULL
    /\ mq = <<>>
    /\ storeOps < MaxStoreOps
    /\ storeOps' = storeOps + 1
    /\ Write(setToken(a, r))
    /\ nextTok' = IF a # NULL \/ r # NULL THEN nextTok + 1 ELSE nextTok
    /\ last' = Call(IF r = NULL THEN "setToken(a)" ELSE "setToken(a,r)")
    /\ UNCHANGED <<refreshPromise, exch, refreshCalls, req, mq, sessionTerminated,
                   user>>

ClearTokens ==
    /\ mq = <<>>
    /\ storeOps < MaxStoreOps
    /\ storeOps' = storeOps + 1
    /\ Write(clearTokens)
    /\ last' = Call("clearTokens")
    /\ UNCHANGED <<refreshPromise, exch, refreshCalls, req, mq, nextTok,
                   sessionTerminated, user>>

\* the page is loaded again: a new ApiService is constructed from
\* localStorage; the calls and exchanges of the page that was left are gone.
\* The model follows the request() calls of one page; of the next page it
\* keeps the token store.
Restart ==
    /\ mq = <<>>
    /\ Write(constructor)
    /\ refreshPromise' = NULL
    /\ req' = [r \in Reqs |-> Gone]
    /\ exch' = [e \in Exchs |-> IF exch[e].st \in {"none", "settled"} THEN exch[e]
                                ELSE [NoExch EXCEPT !.st = "gone"]]
    /\ sessionTerminated' = FALSE
    /\ user' = NULL
    /\ last' = Call("constructor")
    /\ UNCHANGED <<refreshCalls, mq, nextTok, storeOps>>

RefreshPath_pendingFirst ==
    IF HasPendingRefresh THEN "join"
    ELSE IF refreshToken = NULL THEN "NoRefreshToken" ELSE "start"

\* lines 215-222: what a refreshAccessToken() call does: it throws when no
\* refresh token is stored, else returns the pending promise, else issues
\* the fetch
RefreshPath ==
    IF refreshToken = NULL THEN "NoRefreshToken"
    ELSE IF HasPendingRefresh THEN "join" ELSE "start"

\* lines 214-245: refreshAccessToken() called on the exported object by
\* code other than makeRequest; no request() call awaits the promise
RefreshCall ==
    LET e == refreshCalls + 1 IN
    /\ mq = <<>>
    /\ IF RefreshPath = "start"
         THEN /\ refreshCalls < MaxReq
              /\ exch' = [exch EXCEPT ![e] = [NoExch EXCEPT !.st = "sent",
                                                 !.auth = RefreshHeaders,
                                                 !.sentRefresh = refreshToken]]
              /\ refreshPromise' = e
              /\ refreshCalls' = e
         ELSE UNCHANGED <<exch, refreshPromise, refreshCalls>>
    /\ last' = [Call("refreshAccessToken") EXCEPT !.result = RefreshPath]
    /\ UNCHANGED <<store, req, mq, nextTok, sessionTerminated, storeOps, user>>

Next ==
    \/ \E r \in Reqs : Request(r, "/problems", NoOptions)
    \/ \E r \in Reqs, s \in Statuses : FetchResponse(r, s)
    \/ \E r \in Reqs : FetchReject(r)
    \/ \E r \in Reqs : BodyRead(r, PlainBody)
    \/ \E r \in Reqs : Resume(r)
    \/ \E e \in Exchs, ok \in BOOLEAN : RefreshResponse(e, ok)
    \/ \E e \in Exchs : RefreshFetchReject(e)
    \/ \E e \in Exchs, p \in BOOLEAN : RefreshBody(e, p)
    \/ \E e \in Exchs : Finally(e)
    \/ \E a \in {NULL, nextTok}, r \in {NULL, RefreshOf(nextTok)} : SetToken(a, r)
    \/ ClearTokens
    \/ Restart

Spec == Init /\ [][Next]_vars

\* ---- scheduling -------------------------------------------------------

\* the event loop runs the microtasks that are queued
Microtask ==
    \/ \E e \in Exchs : Finally(e)
    \/ \E r \in Reqs : Resume(r)

\* the dispatch of request r is answered, or its fetch rejects
Answer(r) ==
    \/ \E s \in Statuses : FetchResponse(r, s)
    \/ FetchReject(r)

\* the refresh call of exchange e is answered, or its fetch rejects
RefreshAnswer(e) ==
    \/ \E ok \in BOOLEAN : RefreshResponse(e, ok)
    \/ RefreshFetchReject(e)

\* what the JavaScript engine guarantees on its own: queued promise
\* reactions run. Whether and when the network answers is left open; no
\* timer is armed anywhere in the class.
SchedSpec == Spec /\ WF_vars(Microtask)

\* the steps of the request() calls and of the network: no call on the
\* token store from outside request(), no reload of the page
RequestNext ==
    \/ \E r \in Reqs : Request(r, "/problems", NoOptions)
    \/ \E r \in Reqs : Answer(r)
    \/ \E r \in Reqs, b \in TwoBodies : BodyRead(r, b)
    \/ Microtask
    \/ \E e \in Exchs : RefreshAnswer(e)
    \/ \E e \in Exchs, p \in BOOLEAN : RefreshBody(e, p)

\* the request() calls of a page that is not reloaded, with every network
\* call answered in the end and every body read coming to an end
FairSpec ==
    /\ Init /\ [][RequestNext]_vars
    /\ WF_vars(Microtask)
    /\ \A r \in Reqs : WF_vars(Answer(r))
    /\ \A r \in Reqs : WF_vars(\E b \in TwoBodies : BodyRead(r, b))
    /\ \A e \in Exchs : WF_vars(RefreshAnswer(e))
    /\ \A e \in Exchs : WF_vars(\E p \in BOOLEAN : RefreshBody(e, p))

\* one request() call followed from start to end, with every endpoint and
\* options object and every response body
OneCallNext ==
    \/ \E ep \in Endpoints, o \in Options : Request(1, ep, o)
    \/ Answer(1)
    \/ \E b \in Bodies : BodyRead(1, b)
    \/ Microtask
    \/ \E e \in Exchs : RefreshAnswer(e)
    \/ \E e \in Exchs, p \in BOOLEAN : RefreshBody(e, p)

OneCallSpec == Init /\ [][OneCallNext]_vars

\* one request() call on a page whose code also calls refreshAccessToken()
\* and clearTokens() itself
DirectNext ==
    \/ Request(1, "/problems", NoOptions)
    \/ Answer(1)
    \/ BodyRead(1, PlainBody)
    \/ Microtask
    \/ \E e \in Exchs : RefreshAnswer(e)
    \/ \E e \in Exchs, p \in BOOLEAN : RefreshBody(e, p)
    \/ ClearTokens
    \/ RefreshCall

DirectSpec == Init /\ [][DirectNext]_vars

\* the page as AuthProvider drives it: checkAuth as it mounts, then logins,
\* logouts, account deletions and requests of its components, and reloads
AuthNext ==
    \/ \E r \in Reqs : CheckAuth(r)
    \/ \E r \in Reqs : Login(r)
    \/ \E r \in Reqs : Logout(r)
    \/ \E r \in Reqs : LogoutAllDevices(r)
    \/ \E r \in Reqs : DeleteAccount(r)
    \/ \E r \in Reqs : Request(r, "/problems", NoOptions)
    \/ \E r \in Reqs : Answer(r)
    \/ \E r \in Reqs : BodyRead(r, PlainBody)
    \/ Microtask
    \/ \E e \in Exchs : RefreshAnswer(e)
    \/ \E e \in Exchs, p \in BOOLEAN : RefreshBody(e, p)
    \/ Restart

AuthSpec == Init /\ [][AuthNext]_vars

\* ---- the claims --------------------------------------------------------

StoreEmpty ==
    token = NULL /\ refreshToken = NULL /\ lsAccess = NULL /\ lsRefresh = NULL

\* the refresh exchanges whose network call is in flight: the fetch is
\* unanswered or the body of its answer is being read
InFlight == {e \in Exchs : exch[e].st \in {"sent", "reading"}}

\* the requests awaiting exchange e
Awaiting(e) == {r \in Reqs : req[r].pc = "refreshing" /\ req[r].awaited = e}

\* C1: at most one refresh network call is in flight at any moment, the
\* handle refreshPromise stands for the call in flight, and once the promise
\* reactions have run the handle is non-null only while a call is in flight.
C1_SingleFlight ==
    /\ Cardinality(InFlight) <= 1
    /\ \A e \in InFlight : refreshPromise = e
    /\ (mq = <<>> /\ refreshPromise # NULL) => refreshPromise \in InFlight

\* C1 witness: two requests have seen 401 and await the one call in flight
C1_Witness ==
    \E e \in InFlight : Cardinality(Awaiting(e)) = 2 /\ refreshCalls = 1

\* C2 as stated: requests dispatched with the same access token that have
\* all been answered 401 with a refresh token stored await one and the same
\* refresh call, whatever the order of the answers.
C2_OneRefreshInEveryOrder ==
    \A r1, r2 \in Reqs :
        (/\ req[r1].awaited # NULL /\ req[r2].awaited # NULL
         /\ req[r1].auth0 = req[r2].auth0)
        => req[r1].awaited = req[r2].awaited

\* C2 amended: a request answered 401 while a refresh is pending issues no
\* refresh call and awaits the pending one; of the requests awaiting a
\* refresh not yet settled exactly one has issued the call; and each
\* resubmits with the
\* access token that refresh produced.
C2_OneRefreshWhilePending ==
    /\ \A r \in Reqs :
          req[r].awaited # NULL =>
             /\ req[r].pendingAt401 # NULL =>
                   (~req[r].issued /\ req[r].awaited = req[r].pendingAt401)
             /\ req[r].pendingAt401 = NULL => req[r].issued
             /\ req[r].retryCount = 1 =>
                   req[r].auth1 = exch[req[r].awaited].newAccess
    /\ \A e \in Exchs :
          exch[e].st \in {"sent", "reading", "settling"} =>
             Cardinality({r \in Awaiting(e) : req[r].issued}) = 1

\* C2 witness: one request started the refresh, the other was answered 401
\* while it was pending, and both have been resubmitted
C2_Witness ==
    \E r1, r2 \in Reqs :
        /\ req[r1].issued /\ req[r2].pendingAt401 # NULL
        /\ req[r1].awaited = req[r2].awaited
        /\ req[r1].retryCount = 1 /\ req[r2].retryCount = 1
        /\ refreshCalls = 1

\* C3: a request() call dispatches at most twice and calls
\* refreshAccessToken at most once; after the retry it never awaits a refresh.
C3_RetriedAtMostOnce ==
    /\ \A r \in Reqs :
          /\ req[r].dispatches <= 2
          /\ req[r].refreshes <= 1
          /\ req[r].retryCount = 1 => req[r].pc # "refreshing"
    /\ last.dispatches <= 2
    /\ last.refreshes <= 1

\* C3 witness: the retried dispatch was answered 401 with a refresh token
\* stored, and the call ended without another refresh
C3_Witness ==
    /\ last.op = "return" /\ last.retryCount = 1
    /\ last.status = 401 /\ last.hadRT
    /\ last.dispatches = 2 /\ last.refreshes = 1

\* the Session Terminator has run: the token store is empty and the
\* session-terminated signal is raised
Terminated == StoreEmpty /\ sessionTerminated

\* C4: a call whose resubmission after a successful refresh is answered 401
\* fails with SessionExpired and the Session Terminator is invoked.
C4_RetryUnauthorizedTerminates ==
    (last.op = "return" /\ last.retryCount = 1 /\ last.status = 401)
    => (last.result = "SessionExpired" /\ Terminated)

\* C5: a call answered 401 while no refresh token is stored fails with
\* SessionExpired, issues no refresh call, and the Session Terminator is
\* invoked.
C5_NoRefreshTokenTerminates ==
    (last.op = "return" /\ last.retryCount = 0 /\ last.status = 401 /\ ~last.hadRT)
    => (last.result = "SessionExpired" /\ last.refreshes = 0 /\ Terminated)

\* request r is queued to continue after the refresh it awaited
Queued(r) == \E i \in 1..Len(mq) : mq[i] = [kind |-> "resume", id |-> r]

\* request r awaits a refresh that has failed
AwaitsFailed(r) ==
    /\ req[r].pc = "refreshing"
    /\ exch[req[r].awaited].outcome = "rejected"

\* C6: when the refresh fails, each request that started or joined it is
\* resumed, and its next step is to fail with SessionExpired without a
\* resubmission, leaving the token store empty in memory and localStorage
\* and the session-terminated signal raised.
C6_FailedRefreshTerminates ==
    /\ [](\A r \in Reqs :
            (AwaitsFailed(r) /\ exch[req[r].awaited].st = "settled") => Queued(r))
    /\ [][\A r \in Reqs :
            (AwaitsFailed(r) /\ req'[r] # req[r]) =>
               /\ req'[r].pc = "done"
               /\ last' = [Return(r, "SessionExpired") EXCEPT !.dispatches = 1]
               /\ StoreEmpty' /\ sessionTerminated']_vars

\* C6 witness: of two requests awaiting a refresh that failed, the first has
\* failed with SessionExpired and the second is about to
C6_Witness ==
    /\ last.op = "return" /\ last.result = "SessionExpired"
    /\ \E r \in Reqs : AwaitsFailed(r) /\ Queued(r)
    /\ Terminated

\* C7: setToken(access) leaves the stored refresh token as it was, in memory
\* and in localStorage; setToken(access, refresh) overwrites both tokens in
\* both places.
C7_SetTokenKeepsRefresh ==
    [][/\ last'.op = "setToken(a)" =>
            (refreshToken' = refreshToken /\ lsRefresh' = lsRefresh)
       /\ last'.op = "setToken(a,r)" =>
            (/\ token' = nextTok /\ lsAccess' = nextTok
             /\ refreshToken' = RefreshOf(nextTok)
             /\ lsRefresh' = RefreshOf(nextTok))]_vars

\* C8: a restart reads back the access and refresh token that getToken()
\* and getRefreshToken() returned just before it.
C8_RestartReadsBack ==
    [][last'.op = "constructor" =>
          (getToken' = getToken /\ getRefreshToken' = getRefreshToken)]_vars

\* C9: after clearTokens(), getToken() and getRefreshToken() return empty
\* and both localStorage entries are removed.
C9_ClearEmptiesStore ==
    last.op = "clearTokens" =>
        (/\ getToken = NULL /\ getRefreshToken = NULL
         /\ lsAccess = NULL /\ lsRefresh = NULL)

\* C9 witness: clearTokens() was called while a refresh started with the
\* stored refresh token was pending
C9_Witness ==
    /\ last.op = "clearTokens"
    /\ \E e \in InFlight : exch[e].sentRefresh # NULL

\* C10: while a request awaits a refresh that has succeeded, the token store
\* holds the pair that refresh produced; every resubmission carries that
\* access token, and never the one that was answered 401.
C10_WaitersSeeNewToken ==
    \A r \in Reqs :
       /\ (req[r].pc = "refreshing" /\ exch[req[r].awaited].outcome = "fulfilled") =>
             /\ token = exch[req[r].awaited].newAccess
             /\ refreshToken = exch[req[r].awaited].newRefresh
             /\ lsAccess = token /\ lsRefresh = refreshToken
             /\ token # NULL
       /\ (req[r].pc = "sent" /\ req[r].retryCount = 1) =>
             /\ req[r].auth1 = exch[req[r].awaited].newAccess
             /\ req[r].auth1 # NULL
             /\ req[r].auth1 # req[r].auth0

\* C10 witness: two requests awaited one refresh; the first has been
\* resubmitted with the new token, the second is about to be
C10_Witness ==
    \E r1, r2 \in Reqs :
        /\ req[r1].retryCount = 1 /\ req[r1].pc = "sent"
        /\ req[r1].auth0 # NULL
        /\ req[r2].pc = "refreshing" /\ req[r2].awaited = req[r1].awaited
        /\ Queued(r2)
\* C11: the handle refreshPromise is null from the moment the refresh has
\* settled, fulfilled or rejected: no request resumes from a refresh while
\* the handle is set, and a 401 that calls for a refresh while the handle is
\* null issues a new refresh network call and stores a new handle for it.
C11_HandleDiscardedOnSettle ==
    /\ [](\A r \in Reqs : Queued(r) => refreshPromise = NULL)
    /\ [](\A e \in Exchs : exch[e].st = "settled" => refreshPromise # e)
    /\ [][\A r \in Reqs :
            (/\ req[r].pc = "sent" /\ req'[r].pc = "refreshing"
             /\ refreshPromise = NULL) =>
               /\ refreshCalls' = refreshCalls + 1
               /\ refreshPromise' = refreshCalls'
               /\ exch[refreshPromise'].st = "none"
               /\ exch'[refreshPromise'].st = "sent"
               /\ req'[r].awaited = refreshPromise']_vars

\* C11 witness: a refresh has failed and settled, and a 401 seen afterwards
\* has started a second call under a new handle
C11_Witness ==
    \E e1 \in Exchs :
        /\ exch[e1].st = "settled" /\ exch[e1].outcome = "rejected"
        /\ refreshPromise \notin {NULL, e1}
        /\ exch[refreshPromise].st = "sent"
        /\ refreshCalls = 2
\* one request() call is all the page has made, and nothing but that call
\* has touched the token store
OnlyFirstCall ==
    /\ req[1].pc \notin {"idle", "gone"}
    /\ \A q \in Reqs \ {1} : req[q].pc = "idle"
    /\ storeOps = 0

\* C12: a single request() call answered 401 whose refresh succeeds makes
\* one refresh network call and one resubmission and no more: it dispatched
\* twice and refreshed once, the session is not terminated, and when the
\* resubmission is answered 2xx the call returns the parsed body (it throws
\* only if that body cannot be parsed).
C12_RefreshThenRetryOnce ==
    (OnlyFirstCall /\ exch[1].outcome = "fulfilled" /\ mq = <<>>) =>
        /\ refreshCalls = 1
        /\ ~sessionTerminated
        /\ token = exch[1].newAccess /\ refreshToken = exch[1].newRefresh
        /\ IF req[1].pc = "done"
             THEN /\ last.op = "return" /\ last.r = 1
                  /\ last.retryCount = 1
                  /\ last.dispatches = 2 /\ last.refreshes = 1
                  /\ last.result # "SessionExpired"
                  /\ last.status = 200 => last.result \in {"ok", "ParseError"}
             ELSE /\ req[1].pc \in {"sent", "okbody", "errbody"}
                  /\ req[1].retryCount = 1
                  /\ req[1].dispatches = 2 /\ req[1].refreshes = 1

\* C12 witness: the single call was answered 401, refreshed, was resubmitted
\* and has returned the body of the 2xx answer
C12_Witness ==
    /\ OnlyFirstCall /\ req[1].pc = "done"
    /\ exch[1].outcome = "fulfilled" /\ refreshCalls = 1
    /\ last.op = "return" /\ last.result = "ok" /\ last.status = 200
    /\ last.retryCount = 1 /\ last.dispatches = 2 /\ last.refreshes = 1
\* request r has just failed with SessionExpired
Expired(r) ==
    last.op = "return" /\ last.r = r /\ last.result = "SessionExpired"

\* C13: when a request runs the termination path after another has run it,
\* the token store is empty in memory and in localStorage and the signal is
\* raised afterwards, exactly as the first invocation left them, and the
\* request fails with SessionExpired and nothing else.
C13_TerminatorIdempotent ==
    [][\A r \in Reqs :
          (AwaitsFailed(r) /\ req'[r] # req[r] /\ sessionTerminated) =>
             /\ StoreEmpty' /\ sessionTerminated'
             /\ StoreEmpty => (store' = store /\ sessionTerminated' = sessionTerminated)
             /\ Expired(r)']_vars

\* C13 witness: two requests failed on one refresh; the second has run the
\* termination path after the first
C13_Witness ==
    /\ \E r \in Reqs : Expired(r)
    /\ last.signalled
    /\ refreshCalls = 1 /\ \A r \in Reqs : req[r].pc = "done"
    /\ Terminated

\* C14: the page is sent to /auth exactly by a request() call failing with
\* SessionExpired: every such failure raises the signal, the signal is
\* raised by nothing else, and clearTokens() called from outside request()
\* leaves the signal as it was.
C14_SignalIffSessionExpired ==
    /\ []((last.op = "return" /\ last.result = "SessionExpired") => sessionTerminated)
    /\ [][/\ (sessionTerminated' /\ ~sessionTerminated) =>
               (last'.op = "return" /\ last'.result = "SessionExpired")
          /\ last'.op = "clearTokens" => sessionTerminated' = sessionTerminated]_vars

\* C14 witness: a call on the token store from outside request() left the
\* signal unraised, and the request() call that then failed with
\* SessionExpired has raised it
C14_Witness ==
    /\ storeOps > 0
    /\ last.op = "return" /\ last.result = "SessionExpired"
    /\ ~last.signalled /\ sessionTerminated
\* request() call r has been made and has not come to an end
Running(r) == req[r].pc \in {"sent", "refreshing", "okbody", "errbody"}

\* C15: a request that awaits a refresh stops waiting even if the refresh
\* call is never answered: it leaves the await, or else the call is
\* answered after all.
C15_UnansweredRefreshFails ==
    \A r \in Reqs :
        (req[r].pc = "refreshing" /\ exch[req[r].awaited].st = "sent")
        ~> (req[r].pc # "refreshing" \/ exch[req[r].awaited].st # "sent")

\* C16: with every network call answered, every request() call that was
\* made comes to an end (or the page is left); it ends by returning the
\* parsed body or by throwing to its caller; and a call that has ended, the
\* termination path included, dispatches nothing and awaits no refresh
\* afterwards.
C16_EveryCallTerminates ==
    /\ \A r \in Reqs : Running(r) ~> req[r].pc \in {"done", "gone"}
    /\ [][\A r \in Reqs :
            /\ (Running(r) /\ req'[r].pc = "done") =>
                  /\ last'.op = "return" /\ last'.r = r
                  /\ last'.result \in {"ok", "ParseError", "ApiError",
                                       "NetworkError", "SessionExpired"}
            /\ req[r].pc = "done" => req'[r] \in {Done, Gone}]_vars
    /\ [](\A r \in Reqs :
            req[r].pc = "done" =>
               /\ ~Queued(r)
               /\ \A e \in Exchs : \A i \in 1..Len(exch[e].waiters) :
                     exch[e].waiters[i] # r)

\* C16 witness: a request that joined a pending refresh has failed with
\* SessionExpired after the request that started it
C16_Witness ==
    /\ \E r \in Reqs : Expired(r) /\ r # 1
    /\ last.signalled /\ last.dispatches = 1
    /\ refreshCalls = 1 /\ req[1].pc = "done"
\* a call on the token store from outside request(), or a reload
OutsideCall ==
    last.op \in {"setToken(a)", "setToken(a,r)", "clearTokens", "constructor"}

\* C18: a step of a request() call changes the token store only when its
\* refresh succeeds (both tokens replaced by the new pair, in memory and in
\* localStorage) or when it runs the termination path (all four emptied);
\* an answer other than 401 starts no refresh and changes no token, and a
\* call that ends on its first answer has called for no refresh.
C18_StoreChangesOnlyByRefreshOrTermination ==
    /\ [][store' # store =>
            \/ OutsideCall'
            \/ \E e \in Exchs :
                  /\ exch[e].st = "reading" /\ exch'[e].outcome = "fulfilled"
                  /\ token' = exch'[e].newAccess /\ lsAccess' = token'
                  /\ refreshToken' = exch'[e].newRefresh /\ lsRefresh' = refreshToken'
                  /\ token' \notin {NULL, token}
                  /\ refreshToken' \notin {NULL, refreshToken}
            \/ /\ last'.op = "return" /\ last'.result = "SessionExpired"
               /\ StoreEmpty']_vars
    /\ [][\A r \in Reqs :
            (req[r].pc = "sent" /\ req'[r].pc \in {"okbody", "errbody"}
             /\ req'[r].status # 401) =>
                (store' = store /\ refreshCalls' = refreshCalls
                 /\ refreshPromise' = refreshPromise)]_vars
    /\ []((last.op = "return" /\ last.retryCount = 0 /\ last.status # 401) =>
             (last.refreshes = 0 /\ last.dispatches = 1))

\* C18 witness: a call answered 409 on its first dispatch has thrown while
\* another call's refresh, started with the stored refresh token, is pending
C18_Witness ==
    /\ last.op = "return" /\ last.result = "ApiError" /\ last.status = 409
    /\ last.retryCount = 0
    /\ \E e \in InFlight : exch[e].sentRefresh = refreshToken /\ token # NULL

\* C19: a dispatch, first or resubmitted, carries the Authorization header
\* exactly when this.token is set as the dispatch is built, and the header
\* carries that token.
C19_AuthorizationIffToken ==
    [][\A r \in Reqs :
          req'[r].dispatches > req[r].dispatches =>
             LET sent == IF req'[r].retryCount = 0 THEN req'[r].auth0
                         ELSE req'[r].auth1
             IN  /\ token # NULL => sent = token
                 /\ token = NULL => sent = NULL]_vars

\* C19 witness: one request was dispatched without the header while no
\* token was stored, another with the token stored since
C19_Witness ==
    \E r1, r2 \in Reqs :
        /\ req[r1].pc = "sent" /\ req[r1].dispatches = 1 /\ req[r1].auth0 = NULL
        /\ req[r2].pc = "sent" /\ req[r2].dispatches = 1 /\ req[r2].auth0 = token
        /\ token # NULL
\* the detail an error body carries, if it carries one
HasDetail(j) == j.detail \notin {Undefined, Str("")}

\* C17: a response that is neither 2xx nor 401 makes the call throw an error
\* whose status is the response status; when the body parses, data is the
\* parsed body and message is the body's detail if it has one, else the
\* generic message of the status; when the body does not parse, data is {}
\* and message the generic one.
C17_ErrorCarriesBody ==
    (last.op = "return" /\ last.status \notin {0, 200, 401}) =>
        /\ last.result = "ApiError"
        /\ Len(last.body) = 1 /\ Len(last.error) = 1
        /\ LET body == last.body[1]
               error == last.error[1]
           IN  /\ error.status = last.status
               /\ error.data = IF body.parses THEN body.json ELSE EmptyObject
               /\ error.message =
                     IF body.parses /\ HasDetail(body.json) THEN body.json.detail
                     ELSE GenericMessage(last.status)

\* C20: the resubmission after a refresh goes to the same URL, query string
\* included, with the same method and body as the first dispatch.
C20_RetryIdentical ==
    \A r \in Reqs :
        (req[r].pc = "sent" /\ req[r].retryCount = 1) =>
            /\ Len(req[r].wires) = 2
            /\ req[r].wires[2] = req[r].wires[1]
            /\ req[r].wires[2].url =
                  Url(req[r].wires[1].url.endpoint, req[r].closure[1].options)

\* C20 witness: a POST with a body and with query parameters, one of them
\* null, has been resubmitted with another Authorization header
C20_Witness ==
    /\ req[1].pc = "sent" /\ req[1].retryCount = 1
    /\ req[1].wires[1].method = "POST" /\ req[1].wires[1].body # Absent
    /\ Len(req[1].closure[1].options.params) = 2
    /\ Len(req[1].wires[1].url.query) = 1
    /\ req[1].auth1 # req[1].auth0
\* C21: request() never changes the caller's options object: from the first
\* dispatch on, and still after the resubmission, the object holds its
\* params entry and every other entry with the values it was passed with.
C21_OptionsNotMutated ==
    \A r \in Reqs :
        req[r].closure # <<>> =>
            req[r].closure[1].options = req[r].closure[1].given

\* C21 witness: a call passed a params entry has been resubmitted after a
\* refresh, and the caller's object still has the entry
C21_Witness ==
    /\ req[1].pc = "sent" /\ req[1].dispatches = 2
    /\ req[1].closure[1].given.hasParams
    /\ Len(req[1].closure[1].options.params) = 2
\* C22: the refresh token goes to /auth/refresh alone: the Authorization
\* header of a dispatch, first or resubmitted, is never a refresh token (the
\* URL, method and body of a dispatch are the caller's and hold no token),
\* the body of a refresh call holds a refresh token, and the refresh call
\* carries no Authorization header.
C22_RefreshTokenOnlyToRefresh ==
    /\ \A r \in Reqs :
          ~IsRefreshToken(req[r].auth0) /\ ~IsRefreshToken(req[r].auth1)
    /\ \A e \in Exchs :
          /\ exch[e].auth = NULL
          /\ exch[e].st = "sent" => IsRefreshToken(exch[e].sentRefresh)

\* C22 witness: while a refresh call carrying the stored refresh token is
\* in flight, another request is dispatched with the Authorization header
C22_Witness ==
    \E r \in Reqs, e \in InFlight :
        /\ req[r].pc = "sent" /\ req[r].auth0 = token /\ token # NULL
        /\ exch[e].sentRefresh = refreshToken /\ IsRefreshToken(refreshToken)
\* C23: refreshAccessToken() called while no refresh token is stored throws
\* NoRefreshToken, issues no network call and leaves the token store and the
\* handle as they were, also while a refresh started earlier is pending.
C23_NoRefreshTokenThrows ==
    [][(last'.op = "refreshAccessToken" /\ refreshToken = NULL) =>
          /\ last'.result = "NoRefreshToken"
          /\ refreshCalls' = refreshCalls /\ exch' = exch
          /\ store' = store
          /\ refreshPromise' = refreshPromise]_vars

\* C23 witness: the call has thrown NoRefreshToken while the refresh that
\* was started before the tokens were cleared is still pending
C23_Witness ==
    /\ last.op = "refreshAccessToken" /\ last.result = "NoRefreshToken"
    /\ refreshToken = NULL
    /\ refreshPromise # NULL /\ exch[refreshPromise].st = "sent"
\* C24: a refresh whose fetch rejects (a network-level failure, no answer
\* of the identity provider) leaves the token store as it was, through the
\* settling of its promise and the continuation of the request that awaited
\* it: the refresh token is still stored afterwards.
C24_NetworkFailureKeepsStore ==
    [][last.op = "refreshFetchReject" =>
          (store' = store /\ (refreshToken # NULL => refreshToken' # NULL))]_vars
\* C25: a token store that has been emptied stays empty until a login
\* stores tokens again: nothing but a setToken call from outside request(),
\* and so no refresh that was in flight when the store was emptied, puts a
\* token back into memory or localStorage.
C25_ClearedStoreStaysEmpty ==
    [][(StoreEmpty /\ ~StoreEmpty') =>
          last'.op \in {"setToken(a)", "setToken(a,r)"}]_vars
\* C26: a refresh works on the session that is stored: a request answered
\* 401 awaits only a refresh issued with the refresh token stored at that
\* moment (never one still pending from before a login), and the pair a
\* refresh stores replaces the pair it was issued for (never the pair of a
\* login made since).
C26_RefreshOfStoredSession ==
    /\ [][\A r \in Reqs :
            (req[r].pc = "sent" /\ req'[r].pc = "refreshing") =>
                exch'[req'[r].awaited].sentRefresh = refreshToken]_vars
    /\ [][\A e \in Exchs :
            (exch[e].st = "reading" /\ exch'[e].outcome = "fulfilled") =>
                (refreshToken = NULL \/ exch[e].sentRefresh = refreshToken)]_vars
\* C27: a login answered 401 calls for no refresh, raises no
\* session-terminated signal, leaves the token store as it was and throws
\* the error built from the answer, whatever the token store holds, a
\* refresh token kept in memory included.
C27_RejectedLoginOnlyFails ==
    /\ [](\A r \in Reqs : req[r].via = "login" => req[r].pc # "refreshing")
    /\ [][\A r \in Reqs :
            (/\ req[r].via = "login" /\ req'[r] # req[r]
             /\ (req[r].status = 401 \/ req'[r].status = 401)) =>
                /\ store' = store
                /\ sessionTerminated' = sessionTerminated
                /\ refreshCalls' = refreshCalls
                /\ req'[r].pc = "done" =>
                      (last'.result = "ApiError" /\ last'.refreshes = 0)]_vars
\* request() call r comes to its end in this step
Ends(r) == Running(r) /\ req'[r].pc = "done"

\* C28: logout() never throws: however the /auth/logout call ended (2xx, an
\* error answer, 401 with a failed refresh, a rejected fetch) it returns
\* {success: true}, and as it returns the token store is empty in memory
\* and in localStorage and AuthProvider's user is null.
C28_LogoutAlwaysSucceeds ==
    (last.op = "return" /\ last.via = "logout") =>
        (last.result = "success" /\ StoreEmpty /\ user = NULL)

\* C28 witness: logout() has returned after its call was answered 409 while
\* a refresh started by another request is still in flight
C28_Witness ==
    /\ last.op = "return" /\ last.via = "logout" /\ last.status = 409
    /\ InFlight # {}

\* C29: deleteAccount() empties the token store when its DELETE call
\* returned; when the call fails with anything but 401 it throws what the
\* call threw and leaves the four values as they were. logoutAllDevices()
\* empties the store whether its call returned or threw, and throws what
\* the call threw.
C29_DeleteClearsOnSuccessOnly ==
    [][\A r \in Reqs :
          /\ (Ends(r) /\ req[r].via = "deleteAccount") =>
                IF last'.status = 200
                  THEN last'.result = "ok" /\ StoreEmpty'
                  ELSE /\ last'.result \in {"ApiError", "NetworkError", "SessionExpired"}
                       /\ last'.status # 401 => store' = store
          /\ (Ends(r) /\ req[r].via = "logoutAll") =>
                /\ StoreEmpty'
                /\ IF last'.status = 200 THEN last'.result = "success"
                   ELSE last'.result \in {"ApiError", "NetworkError", "SessionExpired"}]_vars

\* C29 witness: deleteAccount() has thrown the error of a 409 answer and
\* both tokens are still stored
C29_Witness ==
    /\ last.op = "return" /\ last.via = "deleteAccount"
    /\ last.result = "ApiError" /\ last.status = 409
    /\ token # NULL /\ refreshToken # NULL /\ lsAccess = token /\ lsRefresh = refreshToken

\* C30: AuthProvider's user state agrees with the token store: when
\* AuthProvider.login throws, the access token its login() call stored is
\* no longer stored; and once a request has sent the page to /auth, the page
\* that loads has no user.
C30_UserAgreesWithStore ==
    /\ [][\A r \in Reqs :
            (/\ Ends(r) /\ req[r].via \in {"login", "getCurrentUser"}
             /\ last'.result # "success") =>
                (req[r].minted = NULL \/ token' # req[r].minted)]_vars
    /\ [][(sessionTerminated /\ last'.op = "constructor") =>
             (user' = NULL /\ token' = NULL)]_vars
====
